---- MODULE Spec2Model ----
(***************************************************************************)
(* LoomPy: the structure-preserving JSON translation core.                 *)
(*                                                                         *)
(*   src/src/placeholder_protection.py  extract_placeholders,              *)
(*                                      restore_placeholders               *)
(*   src/src/json_traversal.py          collect_string_paths, set_by_path  *)
(*   src/src/translation_pipeline.py    translate_json_values              *)
(*                                                                         *)
(* A text is a sequence of one-character strings.  A JSON document lives   *)
(* in a heap of containers (Python dict and list objects, each with an     *)
(* address); a value is a scalar or a reference to a container, so that    *)
(* copy.deepcopy, aliasing and in-place mutation are what they are in      *)
(* Python.  A dict is its sequence of <<key, value>> items in insertion    *)
(* order.                                                                  *)
(***************************************************************************)
EXTENDS Integers, Sequences, FiniteSets, TLC

\* ------------------------------------------------------------------ bounds

\* A text handed to extract_placeholders is built from at most MaxPieces
\* fragments of Fragments.
MaxPieces == 3

\* A document has at most MaxNodes values (containers and scalars).
MaxNodes == 3

\* ---------------------------------------------------------------- characters

Lower ==
    {"a","b","c","d","e","f","g","h","i","j","k","l","m",
     "n","o","p","q","r","s","t","u","v","w","x","y","z"}

Upper ==
    {"A","B","C","D","E","F","G","H","I","J","K","L","M",
     "N","O","P","Q","R","S","T","U","V","W","X","Y","Z"}

Digit == {"0","1","2","3","4","5","6","7","8","9"}

\* [a-zA-Z_]
IdStart == Lower \cup Upper \cup {"_"}

\* [a-zA-Z0-9_]
IdChar == IdStart \cup Digit

\* [sdifgcr]
Conv == {"s","d","i","f","g","c","r"}

\* The pattern families, in the order of the PLACEHOLDER_PATTERNS list.
PLACEHOLDER_PATTERNS == <<"brace", "named", "printf">>

\* ------------------------------------------------------------ text helpers

SetMax(S) == CHOOSE x \in S : \A y \in S : y <= x

\* t[from:] in Python terms, for a 1-based from.
Drop(t, from) == SubSeq(t, from, Len(t))

\* Whether text t has the literal w at position i.
HasAt(t, w, i) ==
    /\ i >= 1
    /\ i + Len(w) - 1 <= Len(t)
    /\ SubSeq(t, i, i + Len(w) - 1) = w

\* Whether the literal w occurs in t.
Contains(t, w) == \E i \in 1..Len(t) : HasAt(t, w, i)

\* The number of (possibly overlapping) places where w occurs in t.
Occurrences(t, w) == Cardinality({i \in 1..Len(t) : HasAt(t, w, i)})

\* The last index of the longest run of identifier characters that starts at
\* j (j - 1 when there is none): the greedy [a-zA-Z0-9_]*.
IdRunEnd(t, j) ==
    LET S == {e \in j..Len(t) : \A k \in j..e : t[k] \in IdChar}
    IN  IF S = {} THEN j - 1 ELSE SetMax(S)

\* The mutant: the name of a brace placeholder may begin with a digit.
MatchEnd_digit_first(kind, t, i) ==
    LET n == Len(t) IN
    CASE kind = "brace" ->
           IF /\ i + 2 <= n
              /\ t[i] = "{"
              /\ t[i + 1] \in IdChar
           THEN LET e == IdRunEnd(t, i + 2)
                IN  IF e + 1 <= n /\ t[e + 1] = "}" THEN e + 1 ELSE 0
           ELSE 0
      [] kind = "named" ->
           IF /\ i + 4 <= n
              /\ t[i] = "%"
              /\ t[i + 1] = "("
              /\ t[i + 2] \in IdStart
           THEN LET e == IdRunEnd(t, i + 3)
                IN  IF /\ e + 2 <= n
                       /\ t[e + 1] = ")"
                       /\ t[e + 2] \in Conv
                    THEN e + 2 ELSE 0
           ELSE 0
      [] OTHER ->
           IF i + 1 <= n /\ t[i] = "%" /\ t[i + 1] \in Conv
           THEN i + 1 ELSE 0

\* re's match of one pattern anchored at position i: the index of the last
\* matched character, 0 when the pattern does not match there.  The
\* identifier's closing delimiter is no identifier character, so the greedy
\* run is the only candidate.
MatchEnd(kind, t, i) ==
    LET n == Len(t) IN
    CASE kind = "brace" ->
           IF /\ i + 2 <= n
              /\ t[i] = "{"
              /\ t[i + 1] \in IdStart
           THEN LET e == IdRunEnd(t, i + 2)
                IN  IF e + 1 <= n /\ t[e + 1] = "}" THEN e + 1 ELSE 0
           ELSE 0
      [] kind = "named" ->
           IF /\ i + 4 <= n
              /\ t[i] = "%"
              /\ t[i + 1] = "("
              /\ t[i + 2] \in IdStart
           THEN LET e == IdRunEnd(t, i + 3)
                IN  IF /\ e + 2 <= n
                       /\ t[e + 1] = ")"
                       /\ t[e + 2] \in Conv
                    THEN e + 2 ELSE 0
           ELSE 0
      [] OTHER ->
           IF i + 1 <= n /\ t[i] = "%" /\ t[i + 1] \in Conv
           THEN i + 1 ELSE 0

\* list(re.finditer(pattern, t)): the non-overlapping matches from the left,
\* each as <<first, last>>, scanning from position pos.
RECURSIVE FindIter(_, _, _)
FindIter(kind, t, pos) ==
    IF pos > Len(t) THEN << >>
    ELSE LET e == MatchEnd(kind, t, pos)
         IN  IF e = 0 THEN FindIter(kind, t, pos + 1)
             ELSE << <<pos, e>> >> \o FindIter(kind, t, e + 1)

\* Whether any of the three patterns matches somewhere in t.
AnyPatternMatches(t) ==
    \E k \in 1..Len(PLACEHOLDER_PATTERNS) :
        FindIter(PLACEHOLDER_PATTERNS[k], t, 1) # << >>

DigitChar == <<"0","1","2","3","4","5","6","7","8","9">>

\* str(n) for n >= 0.
RECURSIVE Decimal(_)
Decimal(n) ==
    IF n < 10 THEN <<DigitChar[n + 1]>>
    ELSE Decimal(n \div 10) \o <<DigitChar[(n % 10) + 1]>>

\* f"__PH{token_counter}__"
Token(n) == <<"_","_","P","H">> \o Decimal(n) \o <<"_","_">>

\* Whether t holds a substring of the token's form, __PH<digits>__.
HasTokenForm(t) ==
    \E i \in 1..Len(t) :
        /\ HasAt(t, <<"_","_","P","H">>, i)
        /\ \E e \in (i + 4)..Len(t) :
              /\ \A k \in (i + 4)..e : t[k] \in Digit
              /\ HasAt(t, <<"_","_">>, e + 1)

\* ------------------------------------------------------- Python dict (ordered)

DictKeys(items) == [i \in 1..Len(items) |-> items[i][1]]

DictHas(items, k) == \E i \in 1..Len(items) : items[i][1] = k

DictGet(items, k) ==
    items[CHOOSE i \in 1..Len(items) : items[i][1] = k][2]

\* The mutant: the assignment always adds an item.
DictSet_append(items, k, v) == Append(items, <<k, v>>)

\* d[k] = v: an existing key keeps its place, a new key goes last.
DictSet(items, k, v) ==
    IF DictHas(items, k)
    THEN [i \in 1..Len(items) |->
            IF items[i][1] = k THEN <<k, v>> ELSE items[i]]
    ELSE Append(items, <<k, v>>)

\* ------------------------------------------------------ placeholder_protection

\* The mutant: the matches are taken from the leftmost to the rightmost, at
\* the offsets found before the first substitution.
RECURSIVE ReplaceMatches_forward(_, _, _)
ReplaceMatches_forward(st, matches, k) ==
    IF k = 0 THEN st
    ELSE LET first == matches[Len(matches) - k + 1][1]
             last == matches[Len(matches) - k + 1][2]
             placeholder == SubSeq(st.text, first, last)
             token == Token(st.counter)
         IN  ReplaceMatches_forward(
                 [text |-> SubSeq(st.text, 1, first - 1) \o token
                             \o Drop(st.text, last + 1),
                  mapping |-> DictSet(st.mapping, token, placeholder),
                  counter |-> st.counter + 1],
                 matches, k - 1)

\* The body of `for match in reversed(matches)`, from match k down to 1.
\* st is [text, mapping, counter]; the spans are those found before the
\* first substitution.
RECURSIVE ReplaceMatches(_, _, _)
ReplaceMatches(st, matches, k) ==
    IF k = 0 THEN st
    ELSE LET first == matches[k][1]
             last == matches[k][2]
             placeholder == SubSeq(st.text, first, last)
             token == Token(st.counter)
         IN  ReplaceMatches(
                 [text |-> SubSeq(st.text, 1, first - 1) \o token
                             \o Drop(st.text, last + 1),
                  mapping |-> DictSet(st.mapping, token, placeholder),
                  counter |-> st.counter + 1],
                 matches, k - 1)

\* The body of `for pattern, pattern_type in PLACEHOLDER_PATTERNS`, from
\* pattern p on.
RECURSIVE ExtractFrom(_, _)
ExtractFrom(st, p) ==
    IF p > Len(PLACEHOLDER_PATTERNS) THEN st
    ELSE LET matches == FindIter(PLACEHOLDER_PATTERNS[p], st.text, 1)
         IN  ExtractFrom(ReplaceMatches(st, matches, Len(matches)), p + 1)

\* extract_placeholders(text): <<protected_text, mapping>>.
extract_placeholders(t) ==
    LET st == ExtractFrom([text |-> t, mapping |-> << >>, counter |-> 0], 1)
    IN  <<st.text, st.mapping>>

\* The mutant: str.replace(old, new, 1), only the first occurrence.
RECURSIVE StrReplace_once(_, _, _)
StrReplace_once(t, old, new) ==
    IF Len(t) < Len(old) THEN t
    ELSE IF HasAt(t, old, 1)
         THEN new \o Drop(t, Len(old) + 1)
         ELSE <<t[1]>> \o StrReplace_once(Tail(t), old, new)

\* str.replace(old, new) for a non-empty old: every non-overlapping
\* occurrence from the left.
RECURSIVE StrReplace(_, _, _)
StrReplace(t, old, new) ==
    IF Len(t) < Len(old) THEN t
    ELSE IF HasAt(t, old, 1)
         THEN new \o StrReplace(Drop(t, Len(old) + 1), old, new)
         ELSE <<t[1]>> \o StrReplace(Tail(t), old, new)

\* The loop returning inside its body: only the first item is replaced.
RestoreFrom_first_only(t, mapping, k) ==
    IF k > Len(mapping) THEN t
    ELSE StrReplace(t, mapping[k][1], mapping[k][2])

\* The body of `for token, placeholder in mapping.items()`, from item k on.
RECURSIVE RestoreFrom(_, _, _)
RestoreFrom(t, mapping, k) ==
    IF k > Len(mapping) THEN t
    ELSE RestoreFrom(StrReplace(t, mapping[k][1], mapping[k][2]),
                     mapping, k + 1)

\* restore_placeholders(text, mapping)
restore_placeholders(t, mapping) == RestoreFrom(t, mapping, 1)

\* ------------------------------------------------------------- JSON values

\* A dict key or a path segment: a str or an int.
StrKey(s) == [kind |-> "str", s |-> s, n |-> 0]
IntKey(n) == [kind |-> "int", s |-> "", n |-> n]

\* A value: a scalar, or a reference to a container of the heap.
None == [t |-> "null", v |-> 0]
Bool(b) == [t |-> "bool", v |-> b]
Num(n) == [t |-> "num", v |-> n]
Str(s) == [t |-> "str", v |-> s]
Ref(a) == [t |-> "ref", v |-> a]

\* isinstance(value, str)
IsStr(value) == value.t = "str"

\* isinstance(value, (dict, list))
IsContainer(value) == value.t = "ref"

\* isinstance(value, dict), isinstance(value, list)
IsDict(h, value) == value.t = "ref" /\ h[value.v].t = "dict"
IsList(h, value) == value.t = "ref" /\ h[value.v].t = "list"

\* obj.items() of a dict, enumerate(obj) of a list: <<key or index, value>>.
Children(node) ==
    IF node.t = "dict" THEN node.v
    ELSE [i \in 1..Len(node.v) |-> <<IntKey(i - 1), node.v[i]>>]

\* The document a value stands for, as a nested term: a scalar is itself, a
\* list is [t |-> "list", v |-> its elements], a dict is [t |-> "dict",
\* v |-> its <<key, element>> items in order.  Two values are structurally
\* equal when their terms are equal.
RECURSIVE TreeOf(_, _)
TreeOf(h, value) ==
    IF value.t # "ref" THEN value
    ELSE LET node == h[value.v]
         IN  IF node.t = "dict"
             THEN [t |-> "dict",
                   v |-> [i \in 1..Len(node.v) |->
                            <<node.v[i][1], TreeOf(h, node.v[i][2])>>]]
             ELSE [t |-> "list",
                   v |-> [i \in 1..Len(node.v) |-> TreeOf(h, node.v[i])]]

\* The containers reachable from a value.
RECURSIVE Reach(_, _)
Reach(h, value) ==
    IF value.t # "ref" THEN {}
    ELSE LET kids == Children(h[value.v])
         IN  {value.v} \cup
             UNION {Reach(h, kids[i][2]) : i \in 1..Len(kids)}

\* The document of a term, built in a heap: what json.load hands the core.
\* [h |-> the heap after, v |-> the value].
RECURSIVE Alloc(_, _)
RECURSIVE AllocKids(_, _, _, _)
AllocKids(h, kids, i, acc) ==
    IF i > Len(kids) THEN [h |-> h, v |-> acc]
    ELSE LET r == Alloc(h, kids[i])
         IN  AllocKids(r.h, kids, i + 1, Append(acc, r.v))

Alloc(h, tree) ==
    IF tree.t \notin {"dict", "list"} THEN [h |-> h, v |-> tree]
    ELSE LET a == Len(h) + 1
             kids == IF tree.t = "dict"
                     THEN [i \in 1..Len(tree.v) |-> tree.v[i][2]]
                     ELSE tree.v
             r == AllocKids(Append(h, [t |-> tree.t, v |-> << >>]),
                            kids, 1, << >>)
             items == IF tree.t = "dict"
                      THEN [i \in 1..Len(kids) |-> <<tree.v[i][1], r.v[i]>>]
                      ELSE r.v
         IN  [h |-> [r.h EXCEPT ![a] = [t |-> tree.t, v |-> items]],
              v |-> Ref(a)]

\* copy.deepcopy(value): a scalar is returned as it is (immutable), a
\* container is rebuilt as a new object with deep copies of its elements.
RECURSIVE deepcopy(_, _)
RECURSIVE DeepcopyKids(_, _, _, _)
DeepcopyKids(h, kids, i, acc) ==
    IF i > Len(kids) THEN [h |-> h, v |-> acc]
    ELSE LET r == deepcopy(h, kids[i])
         IN  DeepcopyKids(r.h, kids, i + 1, Append(acc, r.v))

\* The mutant: the "copy" is the object itself.
deepcopy_alias(h, value) == [h |-> h, v |-> value]

\* The mutant: copy.copy, a new outer object that holds the same elements.
deepcopy_shallow(h, value) ==
    IF value.t # "ref" THEN [h |-> h, v |-> value]
    ELSE [h |-> Append(h, h[value.v]), v |-> Ref(Len(h) + 1)]

deepcopy(h, value) ==
    IF value.t # "ref" THEN [h |-> h, v |-> value]
    ELSE LET node == h[value.v]
             a == Len(h) + 1
             kids == IF node.t = "dict"
                     THEN [i \in 1..Len(node.v) |-> node.v[i][2]]
                     ELSE node.v
             r == DeepcopyKids(Append(h, [t |-> node.t, v |-> << >>]),
                               kids, 1, << >>)
             items == IF node.t = "dict"
                      THEN [i \in 1..Len(kids) |-> <<node.v[i][1], r.v[i]>>]
                      ELSE r.v
         IN  [h |-> [r.h EXCEPT ![a] = [t |-> node.t, v |-> items]],
              v |-> Ref(a)]

\* ------------------------------------------------------------ json_traversal

\* collect_string_paths(obj, path): the <<path, text>> pairs.  The dict
\* branch and the list branch run the same loop body over Children.
RECURSIVE collect_string_paths(_, _, _)
RECURSIVE CollectKids(_, _, _, _)
\* The recursion entered for a dict only: what a list holds is skipped.
CollectKids_dict_only(h, kids, path, i) ==
    IF i > Len(kids) THEN << >>
    ELSE LET new_path == Append(path, kids[i][1])
             value == kids[i][2]
             here == IF IsStr(value) THEN << <<new_path, value.v>> >>
                     ELSE IF IsDict(h, value)
                          THEN collect_string_paths(h, value, new_path)
                          ELSE << >>
         IN  here \o CollectKids(h, kids, path, i + 1)

\* The mutant: the recursion into a nested container forgets the segment
\* that leads to it.
CollectKids_samepath(h, kids, path, i) ==
    IF i > Len(kids) THEN << >>
    ELSE LET new_path == Append(path, kids[i][1])
             value == kids[i][2]
             here == IF IsStr(value) THEN << <<new_path, value.v>> >>
                     ELSE IF IsContainer(value)
                          THEN collect_string_paths(h, value, path)
                          ELSE << >>
         IN  here \o CollectKids(h, kids, path, i + 1)

CollectKids(h, kids, path, i) ==
    IF i > Len(kids) THEN << >>
    ELSE LET new_path == Append(path, kids[i][1])
             value == kids[i][2]
             here == IF IsStr(value) THEN << <<new_path, value.v>> >>
                     ELSE IF IsContainer(value)
                          THEN collect_string_paths(h, value, new_path)
                          ELSE << >>
         IN  here \o CollectKids(h, kids, path, i + 1)

\* The string test written as a truth test: an empty text is not collected.
collect_string_paths_truthy(h, obj, path) ==
    IF IsContainer(obj)
    THEN SelectSeq(CollectKids(h, Children(h[obj.v]), path, 1),
                   LAMBDA e : e[2] # << >>)
    ELSE IF IsStr(obj) /\ obj.v # << >> /\ path = << >>
         THEN << << << >>, obj.v >> >>
    ELSE << >>

collect_string_paths(h, obj, path) ==
    IF IsContainer(obj) THEN CollectKids(h, Children(h[obj.v]), path, 1)
    ELSE IF IsStr(obj) /\ path = << >> THEN << << << >>, obj.v >> >>
    ELSE << >>

\* The position (1-based) a Python list of length n gives index i, 0 when
\* i is out of range; a negative index counts from the end.
ListPos(n, i) ==
    IF 0 <= i /\ i < n THEN i + 1
    ELSE IF -n <= i /\ i < 0 THEN n + i + 1
    ELSE 0

\* The mutant: a dict is read with get(), so a missing key reads as None.
GetItem_get(h, current, key) ==
    IF IsDict(h, current)
    THEN IF DictHas(h[current.v].v, key)
         THEN [err |-> "", v |-> DictGet(h[current.v].v, key)]
         ELSE [err |-> "", v |-> None]
    ELSE IF IsList(h, current)
    THEN IF key.kind # "int" THEN [err |-> "TypeError", v |-> None]
         ELSE LET pos == ListPos(Len(h[current.v].v), key.n)
              IN  IF pos = 0 THEN [err |-> "IndexError", v |-> None]
                  ELSE [err |-> "", v |-> h[current.v].v[pos]]
    ELSE [err |-> "TypeError", v |-> None]

\* current[key] for reading: [err, v].
GetItem(h, current, key) ==
    IF IsDict(h, current)
    THEN IF DictHas(h[current.v].v, key)
         THEN [err |-> "", v |-> DictGet(h[current.v].v, key)]
         ELSE [err |-> "KeyError", v |-> None]
    ELSE IF IsList(h, current)
    THEN IF key.kind # "int" THEN [err |-> "TypeError", v |-> None]
         ELSE LET pos == ListPos(Len(h[current.v].v), key.n)
              IN  IF pos = 0 THEN [err |-> "IndexError", v |-> None]
                  ELSE [err |-> "", v |-> h[current.v].v[pos]]
    ELSE [err |-> "TypeError", v |-> None]

\* `for key in path[:-1]`, from segment k on: [err, v], v the parent of the
\* target.
RECURSIVE Navigate(_, _, _, _)
Navigate(h, current, path, k) ==
    IF k > Len(path) - 1 THEN [err |-> "", v |-> current]
    ELSE LET r == GetItem(h, current, path[k])
         IN  IF r.err # "" THEN r
             ELSE Navigate(h, r.v, path, k + 1)

\* The mutant: a list is written one position further on (the last position
\* wraps to the first).
SetItem_neighbour(h, current, final_key, value) ==
    IF IsDict(h, current)
    THEN [err |-> "",
          h |-> [h EXCEPT ![current.v].v = DictSet(@, final_key, value)]]
    ELSE IF IsList(h, current)
    THEN IF final_key.kind # "int" THEN [err |-> "TypeError", h |-> h]
         ELSE LET n == Len(h[current.v].v)
                  pos == ListPos(n, final_key.n)
              IN  IF pos = 0 THEN [err |-> "IndexError", h |-> h]
                  ELSE [err |-> "",
                        h |-> [h EXCEPT ![current.v].v[(pos % n) + 1] = value]]
    ELSE [err |-> "TypeError", h |-> h]

\* The mutant: an index beyond the list appends the value before the error
\* is raised.
SetItem_append_then_raise(h, current, final_key, value) ==
    IF IsDict(h, current)
    THEN [err |-> "",
          h |-> [h EXCEPT ![current.v].v = DictSet(@, final_key, value)]]
    ELSE IF IsList(h, current)
    THEN IF final_key.kind # "int" THEN [err |-> "TypeError", h |-> h]
         ELSE LET pos == ListPos(Len(h[current.v].v), final_key.n)
              IN  IF pos = 0
                  THEN [err |-> "IndexError",
                        h |-> [h EXCEPT ![current.v].v = Append(@, value)]]
                  ELSE [err |-> "",
                        h |-> [h EXCEPT ![current.v].v[pos] = value]]
    ELSE [err |-> "TypeError", h |-> h]

\* current[final_key] = value: [err, h].
SetItem(h, current, final_key, value) ==
    IF IsDict(h, current)
    THEN [err |-> "",
          h |-> [h EXCEPT ![current.v].v = DictSet(@, final_key, value)]]
    ELSE IF IsList(h, current)
    THEN IF final_key.kind # "int" THEN [err |-> "TypeError", h |-> h]
         ELSE LET pos == ListPos(Len(h[current.v].v), final_key.n)
              IN  IF pos = 0 THEN [err |-> "IndexError", h |-> h]
                  ELSE [err |-> "",
                        h |-> [h EXCEPT ![current.v].v[pos] = value]]
    ELSE [err |-> "TypeError", h |-> h]

\* set_by_path(root, path, value): [err |-> the exception raised ("" for
\* none), h |-> the heap after].
set_by_path(h, root, path, value) ==
    IF path = << >> THEN [err |-> "ValueError", h |-> h]
    ELSE LET r == Navigate(h, root, path, 1)
         IN  IF r.err # "" THEN [err |-> r.err, h |-> h]
             ELSE SetItem(h, r.v, path[Len(path)], value)

\* -------------------------------------------------------------------- inputs

\* The texts of a document's string leaves: empty, plain, one placeholder of
\* the brace and of the printf family, a brace placeholder inside a
\* named-printf one.
LeafTexts ==
    { << >>,
      <<"x">>,
      <<"{","a","}">>,
      <<"%","s">>,
      <<"%","(","{","a","}",")","s">> }

Scalars == {None, Bool(TRUE), Num(1)} \cup {Str(s) : s \in LeafTexts}

DocKeys == {"a", "b"}

\* The sequences of k distinct keys.
KeySeqs(k) ==
    {ks \in [1..k -> DocKeys] : \A i, j \in 1..k : i # j => ks[i] # ks[j]}

\* The terms with exactly n values, and the sequences of terms with m values
\* in all.
RECURSIVE TreesOfSize(_)
RECURSIVE Forests(_)
Forests(m) ==
    IF m = 0 THEN {<< >>}
    ELSE UNION {{<<tr>> \o f : tr \in TreesOfSize(s), f \in Forests(m - s)} :
                s \in 1..m}

TreesOfSize(n) ==
    (IF n = 1 THEN Scalars ELSE {})
    \cup {[t |-> "list", v |-> f] : f \in Forests(n - 1)}
    \cup UNION {{[t |-> "dict",
                  v |-> [i \in 1..Len(f) |-> <<StrKey(ks[i]), f[i]>>]] :
                 ks \in KeySeqs(Len(f))} : f \in Forests(n - 1)}

Docs == UNION {TreesOfSize(n) : n \in 1..MaxNodes}

\* What the rewrite function may make of one masked text: the text itself,
\* a text without any token, a text that is one token.
Rewritings(masked) == {masked, <<"X">>, Token(0)}

\* The lists the rewrite function may return for a list of masked texts: of
\* the same length, each text rewritten; shorter; longer.
RewriteOutputs(texts) ==
    {out \in [1..Len(texts) -> UNION {Rewritings(texts[i]) : i \in 1..Len(texts)}] :
        \A i \in 1..Len(texts) : out[i] \in Rewritings(texts[i])}
    \cup {SubSeq(texts, 1, k) : k \in 0..(Len(texts) - 1)}
    \cup {Append(texts, <<"X">>)}

\* --------------------------------------------------------------------- state

VARIABLES
    pc,                    \* the position of the running call
    heap,                  \* the dict and list objects
    json_data,             \* the document handed in
    data0,                 \* the term of json_data when the call began
    string_paths,          \* translate_json_values' locals
    protected_texts,
    placeholder_mappings,
    translated_texts,
    restored_texts,
    result,
    wb,                    \* the write-back loop's position
    calls,                 \* the argument of every translate_func call
    written,               \* the path of every write-back, in order
    error,                 \* the exception the call ended with
    text,                  \* a stand-alone extract/restore round
    protected_text,
    mapping,
    restored_text,
    parked,                \* the locals of a suspended second call
    args,                  \* main's parsed command line
    lang_i,                \* main's position in args.langs
    successful_translations,
    failed_translations,
    exit_status,           \* the status main ended with
    files,                 \* the paths written so far
    events,                \* what main did, in order
    provider,              \* an OpusMTProvider object's fields
    cuda_available,        \* torch.cuda.is_available()
    last_call              \* the last load_model call and how it ended

main_vars ==
    <<args, lang_i, successful_translations, failed_translations,
      exit_status, files, events>>

provider_vars == <<provider, cuda_available, last_call>>

vars ==
    <<pc, heap, json_data, data0, string_paths, protected_texts,
      placeholder_mappings, translated_texts, restored_texts, result, wb,
      calls, written, error, text, protected_text, mapping, restored_text,
      parked, main_vars, provider_vars>>

pipeline_locals ==
    <<string_paths, protected_texts, placeholder_mappings, translated_texts,
      restored_texts, result, wb, calls, written>>

ph_vars == <<text, protected_text, mapping, restored_text>>

\* A local that is not bound yet.
Unbound == [t |-> "unbound", v |-> 0]

\* The locals of a call: what a thread switch saves and brings back.
Frame ==
    [pc |-> pc, json_data |-> json_data, data0 |-> data0,
     string_paths |-> string_paths, protected_texts |-> protected_texts,
     placeholder_mappings |-> placeholder_mappings,
     translated_texts |-> translated_texts,
     restored_texts |-> restored_texts, result |-> result, wb |-> wb,
     calls |-> calls, written |-> written, error |-> error]

\* No second call.
NoFrame ==
    [pc |-> "none", json_data |-> None, data0 |-> None,
     string_paths |-> << >>, protected_texts |-> << >>,
     placeholder_mappings |-> << >>, translated_texts |-> << >>,
     restored_texts |-> << >>, result |-> Unbound, wb |-> 0,
     calls |-> << >>, written |-> << >>, error |-> ""]

InitDoc ==
    \E tree \in Docs :
        LET r == Alloc(<< >>, tree)
        IN  /\ heap = r.h
            /\ json_data = r.v
            /\ data0 = tree

InitLocals ==
    /\ string_paths = << >>
    /\ protected_texts = << >>
    /\ placeholder_mappings = << >>
    /\ translated_texts = << >>
    /\ restored_texts = << >>
    /\ result = Unbound
    /\ wb = 0
    /\ calls = << >>
    /\ written = << >>
    /\ error = ""

InitNoText ==
    /\ text = << >>
    /\ protected_text = << >>
    /\ mapping = << >>
    /\ restored_text = << >>

\* The command line before it is parsed.
NoArgs ==
    [source_lang |-> "", langs |-> << >>, device |-> "None",
     update_source |-> FALSE, output_source |-> FALSE]

\* OpusMTProvider.__init__: nothing is loaded.  A model and a tokenizer are
\* named by the language pair they were built for; << >> and "None" are None.
NewProvider ==
    [model |-> << >>, tokenizer |-> << >>, device |-> "None",
     current_source_language |-> "None",
     current_target_language |-> "None"]

\* No load_model call yet.
NoCall ==
    [source_language |-> "", target_language |-> "", device |-> "",
     returned |-> "", raised |-> "", loaded |-> FALSE]

\* main is not running and no provider is in use.
InitNoMain ==
    /\ args = NoArgs
    /\ lang_i = 0
    /\ successful_translations = << >>
    /\ failed_translations = << >>
    /\ exit_status = "running"
    /\ files = {}
    /\ events = << >>
    /\ provider = NewProvider
    /\ cuda_available = FALSE
    /\ last_call = NoCall

\* ------------------------------------------------- translate_json_values

Init ==
    /\ pc = "start"
    /\ parked = NoFrame
    /\ InitNoMain
    /\ InitDoc
    /\ InitLocals
    /\ InitNoText

\* Step 1, and the test `if not string_paths`.
Collect ==
    /\ pc = "start"
    /\ string_paths' = collect_string_paths(heap, json_data, << >>)
    /\ pc' = IF string_paths' = << >> THEN "no_strings" ELSE "protect"
    /\ UNCHANGED <<heap, json_data, data0, parked, main_vars, provider_vars, written, protected_texts,
                   placeholder_mappings, translated_texts, restored_texts,
                   result, wb, calls, error, ph_vars>>

\* return copy.deepcopy(json_data)
ReturnCopy ==
    /\ pc = "no_strings"
    /\ LET r == deepcopy(heap, json_data)
       IN  /\ heap' = r.h
           /\ result' = r.v
    /\ pc' = "returned"
    /\ UNCHANGED <<json_data, data0, parked, main_vars, provider_vars, written, string_paths, protected_texts,
                   placeholder_mappings, translated_texts, restored_texts,
                   wb, calls, error, ph_vars>>

\* The mutant: the texts go to the rewrite function as they are.
Protect_unmasked ==
    /\ pc = "protect"
    /\ protected_texts' =
          [i \in 1..Len(string_paths) |-> string_paths[i][2]]
    /\ placeholder_mappings' =
          [i \in 1..Len(string_paths) |->
              extract_placeholders(string_paths[i][2])[2]]
    /\ pc' = "translate"
    /\ UNCHANGED <<heap, json_data, data0, parked, main_vars, provider_vars, written, string_paths,
                   translated_texts, restored_texts, result, wb, calls, error,
                   ph_vars>>

\* Step 2: one extract_placeholders per string, the texts and the mappings
\* kept side by side.
Protect ==
    /\ pc = "protect"
    /\ protected_texts' =
          [i \in 1..Len(string_paths) |->
              extract_placeholders(string_paths[i][2])[1]]
    /\ placeholder_mappings' =
          [i \in 1..Len(string_paths) |->
              extract_placeholders(string_paths[i][2])[2]]
    /\ pc' = "translate"
    /\ UNCHANGED <<heap, json_data, data0, parked, main_vars, provider_vars, written, string_paths, translated_texts,
                   restored_texts, result, wb, calls, error, ph_vars>>

\* The mutant: the error of the rewrite function is caught and the masked
\* texts are used as they are.
CallTranslate_swallow ==
    /\ pc = "translate"
    /\ calls' = Append(calls, protected_texts)
    /\ \/ /\ \E out \in RewriteOutputs(protected_texts) :
                translated_texts' = out
          /\ pc' = "check_count"
          /\ error' = error
       \/ /\ translated_texts' = protected_texts
          /\ pc' = "check_count"
          /\ error' = "TranslateError"
    /\ UNCHANGED <<heap, json_data, data0, parked, main_vars, provider_vars, written, string_paths, protected_texts,
                   placeholder_mappings, restored_texts, result, wb, ph_vars>>

\* Step 3: translate_func(protected_texts) returns a list, or raises.
CallTranslate ==
    /\ pc = "translate"
    /\ calls' = Append(calls, protected_texts)
    /\ \/ /\ \E out \in RewriteOutputs(protected_texts) :
                translated_texts' = out
          /\ pc' = "check_count"
          /\ error' = error
       \/ /\ translated_texts' = translated_texts
          /\ pc' = "raised"
          /\ error' = "TranslateError"
    /\ UNCHANGED <<heap, json_data, data0, parked, main_vars, provider_vars, written, string_paths, protected_texts,
                   placeholder_mappings, restored_texts, result, wb, ph_vars>>

\* The mutant: only a list that is too short is refused.
CheckCount_shorter_only ==
    /\ pc = "check_count"
    /\ IF Len(translated_texts) < Len(protected_texts)
       THEN pc' = "raised" /\ error' = "ValueError"
       ELSE pc' = "restore" /\ error' = error
    /\ UNCHANGED <<heap, json_data, data0, parked, main_vars, provider_vars, written, string_paths,
                   protected_texts, placeholder_mappings, translated_texts,
                   restored_texts, result, wb, calls, ph_vars>>

\* if len(translated_texts) != len(protected_texts): raise ValueError
CheckCount ==
    /\ pc = "check_count"
    /\ IF Len(translated_texts) # Len(protected_texts)
       THEN pc' = "raised" /\ error' = "ValueError"
       ELSE pc' = "restore" /\ error' = error
    /\ UNCHANGED <<heap, json_data, data0, parked, main_vars, provider_vars, written, string_paths, protected_texts,
                   placeholder_mappings, translated_texts, restored_texts,
                   result, wb, calls, ph_vars>>

Min(a, b) == IF a <= b THEN a ELSE b

\* The mutant: every text is restored with the first string's mapping.
RestoredTexts_first_mapping(translated, mappings) ==
    [i \in 1..Min(Len(translated), Len(mappings)) |->
        restore_placeholders(translated[i], mappings[1])]

\* Step 4: zip(translated_texts, placeholder_mappings), each text restored
\* with the mapping at its own position.
RestoredTexts(translated, mappings) ==
    [i \in 1..Min(Len(translated), Len(mappings)) |->
        restore_placeholders(translated[i], mappings[i])]

Restore ==
    /\ pc = "restore"
    /\ restored_texts' = RestoredTexts(translated_texts, placeholder_mappings)
    /\ pc' = "copy"
    /\ UNCHANGED <<heap, json_data, data0, parked, main_vars, provider_vars, written, string_paths, protected_texts,
                   placeholder_mappings, translated_texts, result, wb, calls,
                   error, ph_vars>>

\* result = copy.deepcopy(json_data)
DeepCopy ==
    /\ pc = "copy"
    /\ LET r == deepcopy(heap, json_data)
       IN  /\ heap' = r.h
           /\ result' = r.v
    /\ wb' = 1
    /\ pc' = "write_back"
    /\ UNCHANGED <<json_data, data0, parked, main_vars, provider_vars, written, string_paths, protected_texts,
                   placeholder_mappings, translated_texts, restored_texts,
                   calls, error, ph_vars>>

\* The mutant: no special case for the empty path of a root string.
WriteBack_no_root_case ==
    /\ pc = "write_back"
    /\ wb <= Min(Len(string_paths), Len(restored_texts))
    /\ LET path == string_paths[wb][1]
           r == set_by_path(heap, result, path, Str(restored_texts[wb]))
       IN  /\ heap' = r.h
           /\ result' = result
           /\ written' = IF r.err = "" THEN Append(written, path) ELSE written
           /\ IF r.err # ""
              THEN pc' = "raised" /\ error' = r.err /\ wb' = wb
              ELSE pc' = pc /\ error' = error /\ wb' = wb + 1
    /\ UNCHANGED <<json_data, data0, parked, main_vars, provider_vars, string_paths, protected_texts,
                   placeholder_mappings, translated_texts, restored_texts,
                   calls, ph_vars>>

\* One turn of the loop of step 5 over zip(string_paths, restored_texts).
WriteBack ==
    /\ pc = "write_back"
    /\ wb <= Min(Len(string_paths), Len(restored_texts))
    /\ LET path == string_paths[wb][1]
           restored == restored_texts[wb]
       IN  IF path # << >>
           THEN LET r == set_by_path(heap, result, path, Str(restored))
                IN  /\ heap' = r.h
                    /\ result' = result
                    /\ written' = IF r.err = "" THEN Append(written, path)
                                  ELSE written
                    /\ IF r.err # ""
                       THEN pc' = "raised" /\ error' = r.err /\ wb' = wb
                       ELSE pc' = pc /\ error' = error /\ wb' = wb + 1
           ELSE /\ result' = Str(restored)
                /\ heap' = heap
                /\ written' = Append(written, path)
                /\ pc' = pc /\ error' = error /\ wb' = wb + 1
    /\ UNCHANGED <<json_data, data0, parked, main_vars, provider_vars, string_paths, protected_texts,
                   placeholder_mappings, translated_texts, restored_texts,
                   calls, ph_vars>>

\* return result
Return ==
    /\ pc = "write_back"
    /\ wb > Min(Len(string_paths), Len(restored_texts))
    /\ pc' = "returned"
    /\ UNCHANGED <<heap, json_data, data0, parked, main_vars, provider_vars, written, string_paths, protected_texts,
                   placeholder_mappings, translated_texts, restored_texts,
                   result, wb, calls, error, ph_vars>>

Next ==
    \/ Collect
    \/ ReturnCopy
    \/ Protect
    \/ CallTranslate
    \/ CheckCount
    \/ Restore
    \/ DeepCopy
    \/ WriteBack
    \/ Return

Spec == Init /\ [][Next]_vars

\* ------------------------------------- extract_placeholders, restore_placeholders

\* What the texts are built from: the characters the patterns are made of,
\* an identifier letter that is also a conversion, a digit, a blank, whole
\* placeholders' parts, and the head of a token.
Fragments ==
    { <<"{">>, <<"}">>, <<"%">>, <<"(">>, <<")">>, <<"s">>, <<"1">>,
      <<" ">>, <<"_">>,
      <<"{","a","}">>, <<"%","(">>, <<")","s">>,
      <<"_","_","P","H","0">> }

\* The texts of at most n fragments.
RECURSIVE TextsOf(_)
TextsOf(n) ==
    IF n = 0 THEN {<< >>}
    ELSE LET shorter == TextsOf(n - 1)
         IN  shorter \cup {t \o f : t \in shorter, f \in Fragments}

InitPH ==
    /\ pc = "ph_start"
    /\ parked = NoFrame
    /\ InitNoMain
    /\ text \in TextsOf(MaxPieces)
    /\ protected_text = << >>
    /\ mapping = << >>
    /\ restored_text = << >>
    /\ heap = << >>
    /\ json_data = None
    /\ data0 = None
    /\ InitLocals

\* protected_text, mapping = extract_placeholders(text)
Extract ==
    /\ pc = "ph_start"
    /\ protected_text' = extract_placeholders(text)[1]
    /\ mapping' = extract_placeholders(text)[2]
    /\ pc' = "ph_masked"
    /\ UNCHANGED <<text, restored_text, heap, json_data, data0, parked, main_vars, provider_vars,
                   pipeline_locals, error>>

\* restored_text = restore_placeholders(protected_text, mapping): the
\* rewrite between the two is the identity.
RestoreText ==
    /\ pc = "ph_masked"
    /\ restored_text' = restore_placeholders(protected_text, mapping)
    /\ pc' = "ph_restored"
    /\ UNCHANGED <<text, protected_text, mapping, heap, json_data, data0, parked, main_vars, provider_vars,
                   pipeline_locals, error>>

NextPH ==
    \/ Extract
    \/ RestoreText

SpecPlaceholder == InitPH /\ [][NextPH]_vars

\* ------------------------------------ collect_string_paths, then set_by_path

\* A caller collects the string paths of a document and writes every text
\* back, at its path, into a copy of the document.
InitRT ==
    /\ pc = "rt_start"
    /\ parked = NoFrame
    /\ InitNoMain
    /\ InitDoc
    /\ InitLocals
    /\ InitNoText

\* paths = collect_string_paths(D); copy = deepcopy(D)
RTCollect ==
    /\ pc = "rt_start"
    /\ string_paths' = collect_string_paths(heap, json_data, << >>)
    /\ LET r == deepcopy(heap, json_data)
       IN  /\ heap' = r.h
           /\ result' = r.v
    /\ wb' = 1
    /\ pc' = "rt_set"
    /\ UNCHANGED <<json_data, data0, parked, main_vars, provider_vars, written, protected_texts, placeholder_mappings,
                   translated_texts, restored_texts, calls, error, ph_vars>>

\* set_by_path(copy, path, text) for the next pair.
RTSet ==
    /\ pc = "rt_set"
    /\ wb <= Len(string_paths)
    /\ LET r == set_by_path(heap, result, string_paths[wb][1],
                            Str(string_paths[wb][2]))
       IN  /\ heap' = r.h
           /\ written' = IF r.err = "" THEN Append(written, string_paths[wb][1])
                         ELSE written
           /\ IF r.err # ""
              THEN pc' = "rt_raised" /\ error' = r.err /\ wb' = wb
              ELSE pc' = pc /\ error' = error /\ wb' = wb + 1
    /\ UNCHANGED <<json_data, data0, parked, main_vars, provider_vars, string_paths, protected_texts,
                   placeholder_mappings, translated_texts, restored_texts,
                   result, calls, ph_vars>>

\* Every pair is written.
RTDone ==
    /\ pc = "rt_set"
    /\ wb > Len(string_paths)
    /\ pc' = "rt_done"
    /\ UNCHANGED <<heap, json_data, data0, parked, main_vars, provider_vars, written, string_paths, protected_texts,
                   placeholder_mappings, translated_texts, restored_texts,
                   result, wb, calls, error, ph_vars>>

NextRT ==
    \/ RTCollect
    \/ RTSet
    \/ RTDone

SpecRoundTrip == InitRT /\ [][NextRT]_vars

\* ------------------------------------------------------ documents as terms

\* The <<path, leaf>> pairs of a term's scalar leaves, in pre-order: a dict's
\* children in key order, a list's in index order.
RECURSIVE LeavesOf(_, _)
RECURSIVE LeavesOfKids(_, _, _)
LeavesOfKids(tree, path, i) ==
    IF i > Len(tree.v) THEN << >>
    ELSE (IF tree.t = "dict"
          THEN LeavesOf(tree.v[i][2], Append(path, tree.v[i][1]))
          ELSE LeavesOf(tree.v[i], Append(path, IntKey(i - 1))))
         \o LeavesOfKids(tree, path, i + 1)

LeavesOf(tree, path) ==
    IF tree.t \in {"dict", "list"} THEN LeavesOfKids(tree, path, 1)
    ELSE << <<path, tree>> >>

\* The string leaves among them.
StringLeavesOf(tree) == SelectSeq(LeavesOf(tree, << >>), LAMBDA l : l[2].t = "str")

\* The Boolean, Number and Null leaves, each with its path, value and type.
NonStringLeavesOf(tree) ==
    {l \in {LeavesOf(tree, << >>)[i] : i \in 1..Len(LeavesOf(tree, << >>))} :
        l[2].t # "str"}

HasStringLeaf(tree) == StringLeavesOf(tree) # << >>

\* The term with every scalar leaf blanked: what is left is every object's
\* key sequence and every array's length, level by level.
RECURSIVE ShapeOf(_)
ShapeOf(tree) ==
    IF tree.t = "dict"
    THEN [t |-> "dict",
          v |-> [i \in 1..Len(tree.v) |-> <<tree.v[i][1], ShapeOf(tree.v[i][2])>>]]
    ELSE IF tree.t = "list"
    THEN [t |-> "list", v |-> [i \in 1..Len(tree.v) |-> ShapeOf(tree.v[i])]]
    ELSE [t |-> "leaf", v |-> 0]

\* The subterm at a path that resolves in the term.
RECURSIVE TermAt(_, _)
TermAt(tree, path) ==
    IF path = << >> THEN tree
    ELSE IF tree.t = "dict"
         THEN TermAt(DictGet(tree.v, Head(path)), Tail(path))
         ELSE TermAt(tree.v[Head(path).n + 1], Tail(path))

\* The result of a call that has returned, as a term.
ResultTree == TreeOf(heap, result)

\* The call has returned after the rewrite function gave one text per leaf.
Translated == pc = "returned" /\ calls # << >>

\* ------------------------------------------------------------------ claims

\* C1: every Boolean, Number and Null leaf of the translated document sits
\* at the same path with the same value and type as in the input, and none
\* is added or removed, whatever same-length list the rewrite function gave.
C1_NonStringLeavesPreserved ==
    pc = "returned" => NonStringLeavesOf(ResultTree) = NonStringLeavesOf(data0)

\* A translation that changed a string beside a non-string leaf.
C1_Witness ==
    /\ Translated
    /\ NonStringLeavesOf(data0) # {}
    /\ ResultTree # data0

\* C2: the translated document has, at every level, the same object key
\* sequences and the same array lengths as the input.
C2_ShapePreserved ==
    pc = "returned" => ShapeOf(ResultTree) = ShapeOf(data0)

\* A translated object of two keys, in the order b, a.
C2_Witness ==
    /\ Translated
    /\ data0.t = "dict"
    /\ DictKeys(data0.v) = <<StrKey("b"), StrKey("a")>>
    /\ ResultTree # data0

\* C3, as claimed: for any document, writing every collected text back at
\* its path into a copy completes without error and gives a document equal
\* to the original.
C3_RoundTripAnyDocument ==
    /\ pc # "rt_raised"
    /\ pc = "rt_done" => ResultTree = data0

\* C3, amended: so it is for any document whose root is not a bare string.
C3_RoundTripUnlessRootString ==
    ~IsStr(json_data) =>
        /\ pc # "rt_raised"
        /\ pc = "rt_done" => ResultTree = data0

\* Two texts written back into a copy of an object.
C3_Witness ==
    /\ pc = "rt_done"
    /\ IsDict(heap, json_data)
    /\ Len(string_paths) = 2

\* C4: for a text that holds no substring of the form __PH<n>__, masking and
\* then unmasking with the masked text left as it is gives the text back.
C4_MaskUnmaskIdentity ==
    (pc = "ph_restored" /\ ~HasTokenForm(text)) => restored_text = text

\* The heap as it was when the call began.
InputHeap == Alloc(<< >>, data0).h

\* The rewrite function returned a list of another length than it was given,
\* and the length test is over.
CountMismatched ==
    /\ pc \notin {"start", "no_strings", "protect", "translate", "check_count"}
    /\ error # "TranslateError"
    /\ Len(translated_texts) # Len(protected_texts)

\* C5: when the rewrite function returns a list that is shorter or longer
\* than the list of string leaves, the call raises the count-mismatch error,
\* binds no result, writes nothing back and leaves the input as it was.
C5_CountMismatchFatal ==
    CountMismatched =>
        /\ pc = "raised"
        /\ error = "ValueError"
        /\ result = Unbound
        /\ written = << >>
        /\ heap = InputHeap
        /\ TreeOf(heap, json_data) = data0

\* A list of one text returned for two string leaves.
C5_Witness ==
    /\ pc = "raised"
    /\ error = "ValueError"
    /\ Len(protected_texts) = 2
    /\ Len(translated_texts) = 1

\* C6: the input document is never mutated, whether the call succeeds or
\* fails, and a returned container shares no object or array with it.
C6_InputNeverMutated ==
    /\ TreeOf(heap, json_data) = data0
    /\ (pc = "returned" /\ IsContainer(result)) =>
          Reach(heap, result) \cap Reach(heap, json_data) = {}

\* A returned translation of a document with a nested container, one of
\* whose strings changed.
C6_Witness ==
    /\ Translated
    /\ Cardinality(Reach(heap, json_data)) = 2
    /\ ResultTree # data0

\* C7: for a document with no string leaf the rewrite function is never
\* invoked, and what is returned is structurally equal to the input and
\* shares no container with it.
C7_NoStringsNoCall ==
    ~HasStringLeaf(data0) =>
        /\ calls = << >>
        /\ pc \in {"start", "no_strings", "returned"}
        /\ pc = "returned" =>
              /\ ResultTree = data0
              /\ TreeOf(heap, json_data) = data0
              /\ Reach(heap, result) \cap Reach(heap, json_data) = {}

\* A returned copy of a stringless document that nests a container and
\* holds a non-string leaf.
C7_Witness ==
    /\ pc = "returned"
    /\ ~HasStringLeaf(data0)
    /\ Cardinality(Reach(heap, result)) = 2
    /\ NonStringLeavesOf(data0) # {}

\* The masked texts of a term's string leaves, in extraction order.
MaskedLeavesOf(tree) ==
    [i \in 1..Len(StringLeavesOf(tree)) |->
        extract_placeholders(StringLeavesOf(tree)[i][2].v)[1]]

\* C8: for a document with a string leaf the rewrite function is invoked
\* exactly once, with the masked texts of all string leaves, one per leaf,
\* in extraction order.
C8_OneBatchedCall ==
    HasStringLeaf(data0) =>
        IF pc \in {"start", "protect", "translate"}
        THEN calls = << >>
        ELSE calls = <<MaskedLeavesOf(data0)>>

\* A finished call whose one invocation got two texts, the first masked.
C8_Witness ==
    /\ pc = "returned"
    /\ Len(calls) = 1
    /\ Len(calls[1]) = 2
    /\ calls[1][1] # StringLeavesOf(data0)[1][2].v

\* C9: when the root is a bare string s, the call returns a bare string
\* equal to restore_placeholders(f([masked s])[0], map of s); it ends in an
\* error only when f raised or returned another number of texts than one.
C9_RootString ==
    IsStr(data0) =>
        /\ pc = "raised" =>
              (error = "TranslateError" \/ Len(translated_texts) # 1)
        /\ pc = "returned" =>
              /\ calls = << <<extract_placeholders(data0.v)[1]>> >>
              /\ result = Str(restore_placeholders(
                                 translated_texts[1],
                                 extract_placeholders(data0.v)[2]))

\* A root string with a placeholder, returned rewritten.
C9_Witness ==
    /\ pc = "returned"
    /\ IsStr(data0)
    /\ placeholder_mappings[1] # << >>
    /\ result # data0

\* C10: after a successful call the value at the i-th extracted path is
\* restore_placeholders(rewritten[i], map_i), map_i being the map of the
\* i-th text masked alone, and every string leaf was written exactly once.
C10_OwnMapPerLeaf ==
    Translated =>
        LET leaves == StringLeavesOf(data0)
        IN  /\ Len(translated_texts) = Len(leaves)
            /\ written = [i \in 1..Len(leaves) |-> leaves[i][1]]
            /\ \A i \in 1..Len(leaves) :
                  TermAt(ResultTree, leaves[i][1]) =
                      Str(restore_placeholders(
                              translated_texts[i],
                              extract_placeholders(leaves[i][2].v)[2]))

\* Two leaves whose maps give the same token different placeholders, both
\* rewritten to that token.
C10_Witness ==
    /\ Translated
    /\ Len(placeholder_mappings) = 2
    /\ placeholder_mappings[1] # << >>
    /\ placeholder_mappings[2] # << >>
    /\ placeholder_mappings[1] # placeholder_mappings[2]
    /\ translated_texts = <<Token(0), Token(0)>>

\* ------------------------------- mask, rewrite, unmask of a built message

\* str.upper() on the characters of the texts.
LowerLetters ==
    <<"a","b","c","d","e","f","g","h","i","j","k","l","m",
      "n","o","p","q","r","s","t","u","v","w","x","y","z">>

UpperLetters ==
    <<"A","B","C","D","E","F","G","H","I","J","K","L","M",
      "N","O","P","Q","R","S","T","U","V","W","X","Y","Z">>

UpperChar(c) ==
    IF c \in Lower
    THEN UpperLetters[CHOOSE i \in 1..Len(LowerLetters) : LowerLetters[i] = c]
    ELSE c

StrUpper(t) == [i \in 1..Len(t) |-> UpperChar(t[i])]

\* The placeholders a message is built from: two of each family.
PlaceholderPool ==
    { <<"{","a","}">>, <<"{","i","d","}">>,
      <<"%","s">>, <<"%","d">>,
      <<"%","(","a",")","s">>, <<"%","(","i","d",")","d">> }

\* The word the ordinary text between the placeholders is made of.
Words == { <<"t","e","x","t">>, <<"t","o">> }

\* The lists of n distinct placeholders.
PlaceholderLists(n) ==
    {l \in [1..n -> PlaceholderPool] :
        \A i, j \in 1..n : l[i] = l[j] => i = j}

\* f"{word}{i} " for the i-th piece of ordinary text.
TextPart(word, i) == word \o Decimal(i) \o <<" ">>

\* text_parts[0] + placeholders[0] + " " + text_parts[1] + ... + text_parts[-1]
RECURSIVE BuildFrom(_, _, _)
BuildFrom(placeholders, word, i) ==
    IF i > Len(placeholders) THEN TextPart(word, i - 1)
    ELSE TextPart(word, i - 1) \o placeholders[i] \o <<" ">>
         \o BuildFrom(placeholders, word, i + 1)

BuiltTexts ==
    {BuildFrom(l, w, 1) :
        l \in UNION {PlaceholderLists(n) : n \in 2..MaxPieces}, w \in Words}

\* The masked text with the k-th token of the map written twice, and with
\* it dropped.
Duplicated(masked, map, k) ==
    StrReplace(masked, map[k][1], map[k][1] \o map[k][1])

Dropped(masked, map, k) == StrReplace(masked, map[k][1], << >>)

\* The texts a rewrite step hands back for a masked text: the masked text in
\* upper case, a text without any token, the masked text with one token
\* written twice, with one token dropped, and with both done to two tokens.
RewritesOf(masked, map) ==
    {StrUpper(masked), <<"X">>}
    \cup {Duplicated(masked, map, k) : k \in 1..Len(map)}
    \cup {Dropped(masked, map, k) : k \in 1..Len(map)}
    \cup {Dropped(Duplicated(masked, map, kj[1]), map, kj[2]) :
            kj \in {x \in (1..Len(map)) \X (1..Len(map)) : x[1] # x[2]}}

InitRW ==
    /\ pc = "rw_start"
    /\ parked = NoFrame
    /\ InitNoMain
    /\ text \in BuiltTexts
    /\ protected_text = << >>
    /\ mapping = << >>
    /\ restored_text = << >>
    /\ heap = << >>
    /\ json_data = None
    /\ data0 = None
    /\ InitLocals

\* protected_text, mapping = extract_placeholders(original_text)
Mask ==
    /\ pc = "rw_start"
    /\ protected_text' = extract_placeholders(text)[1]
    /\ mapping' = extract_placeholders(text)[2]
    /\ pc' = "rw_masked"
    /\ UNCHANGED <<text, restored_text, heap, json_data, data0, parked, main_vars, provider_vars,
                   pipeline_locals, error>>

\* simulated_translation = <the rewrite of protected_text>
Rewrite ==
    /\ pc = "rw_masked"
    /\ \E out \in RewritesOf(protected_text, mapping) :
          translated_texts' = <<out>>
    /\ pc' = "rw_rewritten"
    /\ UNCHANGED <<heap, json_data, data0, parked, main_vars, provider_vars, string_paths, protected_texts,
                   placeholder_mappings, restored_texts, result, wb, calls,
                   written, error, ph_vars>>

\* restored_text = restore_placeholders(simulated_translation, mapping)
Unmask ==
    /\ pc = "rw_rewritten"
    /\ restored_text' = restore_placeholders(translated_texts[1], mapping)
    /\ pc' = "rw_restored"
    /\ UNCHANGED <<text, protected_text, mapping, heap, json_data, data0, parked, main_vars, provider_vars,
                   pipeline_locals, error>>

NextRW ==
    \/ Mask
    \/ Rewrite
    \/ Unmask

SpecRewrite == InitRW /\ [][NextRW]_vars

\* The first place where w occurs in t, 0 when it does not: str.find, 1-based.
FirstPos(t, w) ==
    IF Contains(t, w)
    THEN CHOOSE i \in 1..Len(t) :
            HasAt(t, w, i) /\ \A j \in 1..(i - 1) : ~HasAt(t, w, j)
    ELSE 0

\* Whether the literals of S occur equally often in a and in b, and in the
\* same relative order of first occurrence.
SameOccurrences(S, a, b) ==
    /\ \A w \in S : Occurrences(a, w) = Occurrences(b, w)
    /\ \A v, w \in S :
          FirstPos(a, v) < FirstPos(a, w) <=> FirstPos(b, v) < FirstPos(b, w)

\* Whether a rewrite left the tokens of the map as they were in the masked
\* text.
TokensIntact(masked, out, map) ==
    SameOccurrences({map[k][1] : k \in 1..Len(map)}, masked, out)

\* C11: for a text built from several distinct placeholders of mixed kinds
\* separated by ordinary text, masking, a rewrite that leaves the tokens
\* intact (upper-casing), then unmasking gives a text in which every
\* placeholder occurs exactly as often as in the original and in the same
\* relative order.
C11_PlaceholdersKeptInOrder ==
    (pc = "rw_restored"
     /\ TokensIntact(protected_text, translated_texts[1], mapping))
    => SameOccurrences(PlaceholderPool, text, restored_text)

\* A message of three placeholders, one of each family, was masked,
\* upper-cased (its ordinary text changed) and unmasked.
C11_Witness ==
    /\ pc = "rw_restored"
    /\ Len(mapping) = 3
    /\ \A kind \in {"brace", "named", "printf"} : FindIter(kind, text, 1) # << >>
    /\ translated_texts[1] = StrUpper(protected_text)
    /\ translated_texts[1] # protected_text
    /\ TokensIntact(protected_text, translated_texts[1], mapping)
    /\ restored_text # text

\* The <<path, text>> pairs of a term's string leaves, in pre-order.
StringPairsOf(tree) ==
    [i \in 1..Len(StringLeavesOf(tree)) |->
        <<StringLeavesOf(tree)[i][1], StringLeavesOf(tree)[i][2].v>>]

C13_RootStringAndEmptyContainers ==
    pc \in {"no_strings", "protect", "translate", "check_count"} =>
        /\ data0.t = "str" => string_paths = << << << >>, data0.v >> >>
        /\ (data0.t \in {"dict", "list"} /\ LeavesOf(data0, << >>) = << >>)
              => string_paths = << >>
        /\ \A i \in 1..Len(LeavesOf(data0, << >>)) :
              LeavesOf(data0, << >>)[i][2] = Str(<< >>)
                  => \E j \in 1..Len(string_paths) :
                        string_paths[j] = <<LeavesOf(data0, << >>)[i][1], << >>>>

\* An array holding an empty container and an empty string was collected:
\* the one entry is the empty string's.
C13_Witness ==
    /\ pc = "protect"
    /\ data0.t = "list"
    /\ Len(data0.v) = 2
    /\ data0.v[1].t \in {"dict", "list"}
    /\ data0.v[2] = Str(<< >>)
    /\ string_paths = << << <<IntKey(1)>>, << >> >> >>

\* ------------------------------------------------- set_by_path on its own

\* The documents set_by_path is called on: every shape, with one text and
\* one number for the leaves (set_by_path never looks at a leaf's content).
SetDocs ==
    {d \in Docs :
        \A i \in 1..Len(LeavesOf(d, << >>)) :
            LeavesOf(d, << >>)[i][2] \in {Num(1), Str(<<"x">>)}}

\* The segments of the paths: a key, and indices inside, at the end of,
\* beyond and (negative) before the arrays of the documents.
Segments == {StrKey("a"), IntKey(0), IntKey(1), IntKey(-1)}

\* The paths: every tuple of at most MaxNodes segments, so one segment more
\* than the deepest document has levels.
Paths == UNION {[1..n -> Segments] : n \in 0..MaxNodes}

\* The text that is written.
NewText == <<"N">>

\* A caller holds a document and one <<path, text>> pair to write.
InitSP ==
    /\ pc = "sp_start"
    /\ parked = NoFrame
    /\ InitNoMain
    /\ \E tree \in SetDocs :
          LET r == Alloc(<< >>, tree)
          IN  /\ heap = r.h
              /\ json_data = r.v
              /\ data0 = tree
    /\ \E p \in Paths : string_paths = << <<p, NewText>> >>
    /\ protected_texts = << >>
    /\ placeholder_mappings = << >>
    /\ translated_texts = << >>
    /\ restored_texts = << >>
    /\ result = Unbound
    /\ wb = 1
    /\ calls = << >>
    /\ written = << >>
    /\ error = ""
    /\ InitNoText

\* set_by_path(root, path, value) returns.
SetReturns ==
    /\ pc = "sp_start"
    /\ LET r == set_by_path(heap, json_data, string_paths[1][1],
                            Str(string_paths[1][2]))
       IN  /\ r.err = ""
           /\ heap' = r.h
    /\ pc' = "sp_done"
    /\ UNCHANGED <<json_data, data0, parked, main_vars, provider_vars, string_paths, protected_texts,
                   placeholder_mappings, translated_texts, restored_texts,
                   result, wb, calls, written, error, ph_vars>>

\* set_by_path(root, path, value) raises.
SetRaises ==
    /\ pc = "sp_start"
    /\ LET r == set_by_path(heap, json_data, string_paths[1][1],
                            Str(string_paths[1][2]))
       IN  /\ r.err # ""
           /\ heap' = r.h
           /\ error' = r.err
    /\ pc' = "sp_raised"
    /\ UNCHANGED <<json_data, data0, parked, main_vars, provider_vars, string_paths, protected_texts,
                   placeholder_mappings, translated_texts, restored_texts,
                   result, wb, calls, written, ph_vars>>

NextSP ==
    \/ SetReturns
    \/ SetRaises

SpecSetPath == InitSP /\ [][NextSP]_vars

\* What stops a path in a term, read segment by segment: "" when every
\* segment resolves, else the first obstacle.  An array takes an index i
\* with -length <= i < length.
RECURSIVE Obstacle(_, _)
Obstacle(tree, path) ==
    IF path = << >> THEN ""
    ELSE IF tree.t = "dict"
    THEN IF DictHas(tree.v, Head(path))
         THEN Obstacle(DictGet(tree.v, Head(path)), Tail(path))
         ELSE IF Len(path) = 1 THEN "missing final key"
              ELSE "missing key on the way"
    ELSE IF tree.t = "list"
    THEN IF Head(path).kind # "int" THEN "key on an array"
         ELSE IF ListPos(Len(tree.v), Head(path).n) = 0
              THEN "index out of range"
              ELSE Obstacle(tree.v[ListPos(Len(tree.v), Head(path).n)],
                            Tail(path))
    ELSE "scalar"

\* The term with the subterm at a path that resolves replaced by new.
RECURSIVE ReplaceAt(_, _, _)
ReplaceAt(tree, path, new) ==
    IF path = << >> THEN new
    ELSE IF tree.t = "dict"
    THEN [tree EXCEPT !.v =
            [i \in 1..Len(tree.v) |->
                IF tree.v[i][1] = Head(path)
                THEN <<tree.v[i][1], ReplaceAt(tree.v[i][2], Tail(path), new)>>
                ELSE tree.v[i]]]
    ELSE [tree EXCEPT !.v =
            [i \in 1..Len(tree.v) |->
                IF i = ListPos(Len(tree.v), Head(path).n)
                THEN ReplaceAt(tree.v[i], Tail(path), new)
                ELSE tree.v[i]]]

\* The arguments and the outcome of the one call.
SetPathArg == string_paths[1][1]
SetValueArg == Str(string_paths[1][2])
TreeAfterSet == TreeOf(heap, json_data)

\* C14: a successful set_by_path(root, path, value) changes only the value
\* stored at the addressed position: the path resolves in the document as it
\* was, and the document after the call is the one before with the value at
\* that position replaced, so every other value, every object's key
\* sequence and every array's length are as before.
C14_SetChangesOnlyTheTarget ==
    pc = "sp_done" =>
        /\ Obstacle(data0, SetPathArg) = ""
        /\ TreeAfterSet = ReplaceAt(data0, SetPathArg, SetValueArg)

\* C15: set_by_path signals the error that matches what is wrong with the
\* path: an empty path gives ValueError whatever the root; a missing object
\* key on the way to the target gives KeyError; an array index outside the
\* array's bounds gives IndexError; a segment applied to a scalar gives
\* TypeError.
C15_MatchingError ==
    pc # "sp_start" =>
        /\ SetPathArg = << >> => (pc = "sp_raised" /\ error = "ValueError")
        /\ (SetPathArg # << >>
            /\ Obstacle(data0, SetPathArg) = "missing key on the way")
              => (pc = "sp_raised" /\ error = "KeyError")
        /\ (SetPathArg # << >>
            /\ Obstacle(data0, SetPathArg) = "index out of range")
              => (pc = "sp_raised" /\ error = "IndexError")
        /\ (SetPathArg # << >> /\ Obstacle(data0, SetPathArg) = "scalar")
              => (pc = "sp_raised" /\ error = "TypeError")

\* A path of three segments whose first segment resolved and whose second
\* is a key the object reached does not have: KeyError was raised.
C15_Witness ==
    /\ pc = "sp_raised"
    /\ error = "KeyError"
    /\ Len(SetPathArg) = 3
    /\ Obstacle(data0, <<SetPathArg[1]>>) = ""
    /\ Obstacle(data0, SetPathArg) = "missing key on the way"

\* C16: set_by_path never adds a key to an object: when the final segment
\* is a key the addressed object does not have, the call raises KeyError
\* and the document, that object's key sequence included, is as before.
C16_NeverAddsKey ==
    (pc # "sp_start" /\ Obstacle(data0, SetPathArg) = "missing final key")
    => /\ pc = "sp_raised"
       /\ error = "KeyError"
       /\ TreeAfterSet = data0

\* The number of matches the three passes find, each pass searching the text
\* as the passes before it left it.
RECURSIVE MatchesFrom(_, _)
MatchesFrom(st, p) ==
    IF p > Len(PLACEHOLDER_PATTERNS) THEN 0
    ELSE LET matches == FindIter(PLACEHOLDER_PATTERNS[p], st.text, 1)
         IN  Len(matches)
             + MatchesFrom(ReplaceMatches(st, matches, Len(matches)), p + 1)

MatchesFound(t) ==
    MatchesFrom([text |-> t, mapping |-> << >>, counter |-> 0], 1)

\* str.count(w): the non-overlapping occurrences of w in t, from the left.
RECURSIVE StrCount(_, _)
StrCount(t, w) ==
    IF Len(t) < Len(w) THEN 0
    ELSE IF HasAt(t, w, 1) THEN 1 + StrCount(Drop(t, Len(w) + 1), w)
         ELSE StrCount(Tail(t), w)

\* The number of tokens of the map in a text.
RECURSIVE TokenCountFrom(_, _, _)
TokenCountFrom(t, map, k) ==
    IF k > Len(map) THEN 0
    ELSE StrCount(t, map[k][1]) + TokenCountFrom(t, map, k + 1)

TokenCount(t, map) == TokenCountFrom(t, map, 1)

\* Whether w is, in full, a match of one of the patterns.
IsPlaceholder(w) ==
    \E p \in 1..Len(PLACEHOLDER_PATTERNS) :
        Len(w) > 0 /\ MatchEnd(PLACEHOLDER_PATTERNS[p], w, 1) = Len(w)

\* C17: for a text with k placeholder matches in total, extract_placeholders
\* returns a map of exactly k entries whose keys are __PH0__ .. __PH<k-1>__,
\* each mapped to the full matched substring, delimiters included, and the
\* number of tokens in the masked text is k.
C17_OneEntryAndOneTokenPerMatch ==
    pc = "ph_masked" =>
        LET k == MatchesFound(text)
        IN  /\ Len(mapping) = k
            /\ \A i \in 1..Len(mapping) :
                  /\ mapping[i][1] = Token(i - 1)
                  /\ IsPlaceholder(mapping[i][2])
            /\ TokenCount(protected_text, mapping) = k

\* Whether some substring of t is a placeholder, family by family, read off
\* the three regular expressions: \{[a-zA-Z_][a-zA-Z0-9_]*\},
\* %\([a-zA-Z_][a-zA-Z0-9_]*\)[sdifgcr] and %[sdifgcr].
BraceIn(t) ==
    \E i, j \in 1..Len(t) :
        /\ i + 2 <= j
        /\ t[i] = "{"
        /\ t[i + 1] \in IdStart
        /\ \A k \in (i + 2)..(j - 1) : t[k] \in IdChar
        /\ t[j] = "}"

NamedIn(t) ==
    \E i, j \in 1..Len(t) :
        /\ i + 3 <= j
        /\ j + 1 <= Len(t)
        /\ t[i] = "%"
        /\ t[i + 1] = "("
        /\ t[i + 2] \in IdStart
        /\ \A k \in (i + 3)..(j - 1) : t[k] \in IdChar
        /\ t[j] = ")"
        /\ t[j + 1] \in Conv

PrintfIn(t) ==
    \E i \in 1..(Len(t) - 1) : t[i] = "%" /\ t[i + 1] \in Conv

PatternIn(t) == BraceIn(t) \/ NamedIn(t) \/ PrintfIn(t)

\* C18: for the empty string and for any text in which none of the three
\* patterns matches, extract_placeholders returns the text unchanged and an
\* empty map; restore_placeholders with an empty map returns its text
\* unchanged.
C18_NothingToMask ==
    /\ (pc \in {"ph_masked", "ph_restored"} /\ ~PatternIn(text))
          => (protected_text = text /\ mapping = << >>)
    /\ (pc = "ph_restored" /\ mapping = << >>)
          => restored_text = protected_text

\* A text that only looks like a placeholder ("{1}": a digit cannot begin
\* the name) went through masking and unmasking.
C18_Witness ==
    /\ pc = "ph_restored"
    /\ text = <<"{", "1", "}">>
    /\ mapping = << >>
    /\ restored_text = text

\* The orders in which the n items of a map can be taken.
OrdersOf(n) ==
    {o \in [1..n -> 1..n] : \A i, j \in 1..n : o[i] = o[j] => i = j}

\* The items of a map taken in another order.
Reordered(map, o) == [i \in 1..Len(map) |-> map[o[i]]]

\* C19: for a text and a map produced by extract_placeholders, the result
\* of restore_placeholders does not depend on the order in which the tokens
\* are replaced: with the items of the map taken in any order, the restored
\* text is the same.
C19_RestoreOrderIrrelevant ==
    pc = "ph_masked" =>
        \A o \in OrdersOf(Len(mapping)) :
            restore_placeholders(protected_text, Reordered(mapping, o))
                = restore_placeholders(protected_text, mapping)

\* How often the tokens that stand for placeholder p occur in a text.
TokensFor(t, map, p) == TokenCount(t, SelectSeq(map, LAMBDA e : e[2] = p))

\* C20: restore_placeholders replaces every occurrence of every token of
\* the map by the placeholder it stands for, and raises no error on
\* incomplete input: a token the rewrite wrote twice gives the placeholder
\* once per occurrence, a token the rewrite dropped gives none, and a text
\* without any token of the map is returned unchanged.
C20_RestoreEveryOccurrence ==
    pc = "rw_restored" =>
        /\ error = ""
        /\ \A k \in 1..Len(mapping) :
              /\ ~Contains(restored_text, mapping[k][1])
              /\ Occurrences(restored_text, mapping[k][2])
                    = TokensFor(translated_texts[1], mapping, mapping[k][2])
        /\ TokenCount(translated_texts[1], mapping) = 0
              => restored_text = translated_texts[1]

\* The rewrite wrote one token twice and dropped another: the restored text
\* holds the first one's placeholder twice and the other's not at all.
C20_Witness ==
    /\ pc = "rw_restored"
    /\ \E k, j \in 1..Len(mapping) :
          /\ StrCount(translated_texts[1], mapping[k][1]) = 2
          /\ Occurrences(restored_text, mapping[k][2]) = 2
          /\ StrCount(protected_text, mapping[j][1]) = 1
          /\ StrCount(translated_texts[1], mapping[j][1]) = 0
          /\ ~Contains(restored_text, mapping[j][2])

\* C21: an error raised by the rewrite function propagates out of
\* translate_json_values unchanged: the call ends with that error, the
\* rewrite function was called once and is not called again, no document is
\* returned, nothing is written back, and the input document is as it was.
C21_RewriteErrorPropagates ==
    /\ Len(calls) <= 1
    /\ error = "TranslateError" =>
          /\ pc = "raised"
          /\ Len(calls) = 1
          /\ result = Unbound
          /\ written = << >>
          /\ heap = InputHeap
          /\ TreeOf(heap, json_data) = data0

\* The rewrite function raised when it was handed two masked texts.
C21_Witness ==
    /\ pc = "raised"
    /\ error = "TranslateError"
    /\ Len(calls) = 1
    /\ Len(calls[1]) = 2

\* ------------------------------------- two calls of translate_json_values

\* The documents of two concurrent calls: at most two values each, the
\* string leaves a placeholder or a plain text.
ConcurrentDocs ==
    {d \in TreesOfSize(1) \cup TreesOfSize(2) :
        \A i \in 1..Len(LeavesOf(d, << >>)) :
            LeavesOf(d, << >>)[i][2] \in {Str(<<"{","a","}">>), Str(<<"x">>)}}

\* The frame of a call that has not begun.
StartFrame(value, tree) ==
    [NoFrame EXCEPT !.pc = "start", !.json_data = value, !.data0 = tree]

\* Two threads, each about to call translate_json_values on its own
\* document; the documents live in the one heap and share nothing.
InitTwo ==
    /\ pc = "start"
    /\ \E tree1, tree2 \in ConcurrentDocs :
          LET r1 == Alloc(<< >>, tree1)
              r2 == Alloc(r1.h, tree2)
          IN  /\ heap = r2.h
              /\ json_data = r1.v
              /\ data0 = tree1
              /\ parked = StartFrame(r2.v, tree2)
    /\ InitNoMain
    /\ InitLocals
    /\ InitNoText

\* The mutant: placeholder_mappings is one module-level list, so a thread
\* that goes on finds the list the other thread left.
Resume_shared_mappings(f) ==
    /\ pc' = f.pc
    /\ json_data' = f.json_data
    /\ data0' = f.data0
    /\ string_paths' = f.string_paths
    /\ protected_texts' = f.protected_texts
    /\ placeholder_mappings' = placeholder_mappings
    /\ translated_texts' = f.translated_texts
    /\ restored_texts' = f.restored_texts
    /\ result' = f.result
    /\ wb' = f.wb
    /\ calls' = f.calls
    /\ written' = f.written
    /\ error' = f.error

\* The running thread takes up the locals of frame f.
Resume(f) ==
    /\ pc' = f.pc
    /\ json_data' = f.json_data
    /\ data0' = f.data0
    /\ string_paths' = f.string_paths
    /\ protected_texts' = f.protected_texts
    /\ placeholder_mappings' = f.placeholder_mappings
    /\ translated_texts' = f.translated_texts
    /\ restored_texts' = f.restored_texts
    /\ result' = f.result
    /\ wb' = f.wb
    /\ calls' = f.calls
    /\ written' = f.written
    /\ error' = f.error

\* A thread switch: the running call is suspended where it is and the other
\* call, if it has not ended, goes on.
Switch ==
    /\ parked.pc \notin {"none", "returned", "raised"}
    /\ Resume(parked)
    /\ parked' = Frame
    /\ UNCHANGED <<heap, ph_vars, main_vars, provider_vars>>

NextTwo ==
    \/ Collect
    \/ ReturnCopy
    \/ Protect
    \/ CallTranslate
    \/ CheckCount
    \/ Restore
    \/ DeepCopy
    \/ WriteBack
    \/ Return
    \/ Switch

SpecTwoCalls == InitTwo /\ [][NextTwo]_vars

\* What a call on the term returns when the rewrite function gave texts for
\* its string leaves: the term with every string leaf replaced by its text
\* unmasked with the leaf's own map.
RECURSIVE WriteAll(_, _, _, _)
WriteAll(tree, pairs, texts, i) ==
    IF i > Len(pairs) THEN tree
    ELSE WriteAll(
             ReplaceAt(tree, pairs[i][1],
                       Str(restore_placeholders(
                               texts[i],
                               extract_placeholders(pairs[i][2])[2]))),
             pairs, texts, i + 1)

SoloResult(tree, texts) == WriteAll(tree, StringPairsOf(tree), texts, 1)

\* Whether the call of frame f stands where it would stand had it run
\* alone: its input is as at the start, its masked texts and maps are those
\* of extract_placeholders on its own leaves (tokens numbered from 0 for
\* each leaf), and what it returned or raised follows from its own document
\* and the texts its rewrite function gave.
AsAlone(f) ==
    LET pairs == StringPairsOf(f.data0) IN
    /\ TreeOf(heap, f.json_data) = f.data0
    /\ f.pc # "start" => f.string_paths = pairs
    /\ f.pc \notin {"start", "no_strings", "protect"} =>
          /\ f.protected_texts =
                [i \in 1..Len(pairs) |-> extract_placeholders(pairs[i][2])[1]]
          /\ f.placeholder_mappings =
                [i \in 1..Len(pairs) |-> extract_placeholders(pairs[i][2])[2]]
    /\ f.calls # << >> => f.calls = <<f.protected_texts>>
    /\ f.pc = "returned" =>
          TreeOf(heap, f.result) =
              IF pairs = << >> THEN f.data0
              ELSE SoloResult(f.data0, f.translated_texts)
    /\ f.pc = "raised" =>
          \/ f.error = "TranslateError"
          \/ /\ f.error = "ValueError"
             /\ Len(f.translated_texts) # Len(pairs)

RECURSIVE PassText(_, _, _, _, _)
PassText(t, matches, c, j, pos) ==
    IF j > Len(matches) THEN Drop(t, pos)
    ELSE SubSeq(t, pos, matches[j][1] - 1)
         \o Token(c + Len(matches) - j)
         \o PassText(t, matches, c, j + 1, matches[j][2] + 1)

PassMap(t, matches, c) ==
    [k \in 1..Len(matches) |->
        <<Token(c + k - 1),
          SubSeq(t, matches[Len(matches) - k + 1][1],
                    matches[Len(matches) - k + 1][2])>>]

RECURSIVE PassesFrom(_, _)
PassesFrom(st, p) ==
    IF p > 3 THEN st
    ELSE LET kind == <<"brace", "named", "printf">>[p]
             matches == FindIter(kind, st.text, 1)
         IN  PassesFrom(
                 [text |-> PassText(st.text, matches, st.counter, 1, 1),
                  mapping |-> st.mapping
                              \o PassMap(st.text, matches, st.counter),
                  counter |-> st.counter + Len(matches)],
                 p + 1)

\* The place of a placeholder's family in the order brace, named, printf.
FamilyRank(w) ==
    IF w[1] = "{" THEN 1
    ELSE IF Len(w) > 2 THEN 2
    ELSE 3

\* C23: extract_placeholders takes the pattern families in the order brace,
\* named-printf, bare-printf, each completely before the next and matched
\* against the text as the earlier families left it; within a family the
\* matches are substituted from the rightmost to the leftmost.  So every
\* token of an earlier family has a smaller number than every token of a
\* later one, the rightmost match of a family gets the family's smallest
\* number, and each substitution replaces exactly the span that was matched.
C23_FamiliesInOrderRightToLeft ==
    pc \in {"ph_masked", "rw_masked"} =>
        LET ref == PassesFrom([text |-> text, mapping |-> << >>,
                               counter |-> 0], 1)
        IN  /\ protected_text = ref.text
            /\ mapping = ref.mapping
            /\ \A i, j \in 1..Len(mapping) :
                  i < j => FamilyRank(mapping[i][2]) <= FamilyRank(mapping[j][2])

\* A brace placeholder became __PH0__ and the named-printf pass, searching
\* the text the brace pass left, matched around that token.
C23_Witness ==
    /\ pc = "ph_masked"
    /\ Len(mapping) = 2
    /\ FamilyRank(mapping[1][2]) = 1
    /\ FamilyRank(mapping[2][2]) = 2
    /\ Contains(mapping[2][2], mapping[1][1])

\* C24: for any document D, translate_json_values(D, f) with f the identity
\* on the list of masked texts returns a document structurally equal to D.
C24_IdentityRewriteGivesInput ==
    (pc = "returned" /\ (calls # << >> => translated_texts = protected_texts))
    => ResultTree = data0

\* C25: for a text that holds no substring of the form __PH<n>__, every
\* token of the map that extract_placeholders returns occurs exactly once
\* in the masked text, and no placeholder of the map holds a token (a later
\* family never swallows a token an earlier family placed).
C25_TokensOnceAndNotNested ==
    (pc = "ph_masked" /\ ~HasTokenForm(text)) =>
        \A k \in 1..Len(mapping) :
            /\ StrCount(protected_text, mapping[k][1]) = 1
            /\ \A j \in 1..Len(mapping) : ~Contains(mapping[k][2], mapping[j][1])

\* C26: the masked text that extract_placeholders returns holds no
\* substring that matches one of the three placeholder patterns.
C26_NoPatternLeftInMaskedText ==
    pc = "ph_masked" => ~PatternIn(protected_text)

\* C27: whenever set_by_path raises (empty path, missing key, index out of
\* range, indexing into a scalar), the document is structurally equal to
\* what it was before the call, and so is every object of the heap: no
\* failing call leaves a partial modification.
C27_FailedSetLeavesDocument ==
    pc = "sp_raised" =>
        /\ TreeAfterSet = data0
        /\ heap = InputHeap

\* A call whose first segment resolved and whose final segment is an index
\* beyond the array reached raised IndexError.
C27_Witness ==
    /\ pc = "sp_raised"
    /\ error = "IndexError"
    /\ Len(SetPathArg) = 2
    /\ Obstacle(data0, <<SetPathArg[1]>>) = ""
    /\ Obstacle(data0, SetPathArg) = "index out of range"

\* ------------------------------------------------- OpusMTProvider.load_model

\* config.MODEL_TEMPLATES: the target languages of each source language.
MODEL_TEMPLATES ==
    [es |-> {"en", "fr", "ca", "de"},
     en |-> {"es", "fr", "de", "ca"},
     fr |-> {"es", "en", "de"},
     ca |-> {"es", "en"},
     de |-> {"es", "en", "fr"}]

validate_source_language(language) == language \in DOMAIN MODEL_TEMPLATES

validate_language_pair(source_language, target_language) ==
    /\ source_language \in DOMAIN MODEL_TEMPLATES
    /\ target_language \in MODEL_TEMPLATES[source_language]

\* The pretrained model of a pair, named by the pair.
get_model_name_for_pair(source_language, target_language) ==
    <<source_language, target_language>>

\* How far the loading gets: all the way, or to the call that raises.
LoadOutcomes == {"ok", "tokenizer_raises", "model_raises", "to_raises"}

\* What a load_model call ends with.
LoadResult(self, returned, raised, loaded) ==
    [self |-> self, returned |-> returned, raised |-> raised,
     loaded |-> loaded]

\* load_model: the pair is validated, a model of the same pair is kept as it
\* is, the device is settled, and the tokenizer and the model are built and
\* moved to the device; the fields of the pair and the device are assigned
\* only when all of that went through.
load_model(self, source_language, target_language, device, cuda, outcome) ==
    IF ~validate_language_pair(source_language, target_language)
    THEN LoadResult(self, "", "ValueError", FALSE)
    ELSE IF /\ self.current_source_language = source_language
            /\ self.current_target_language = target_language
            /\ self.model # << >>
    THEN LoadResult(self, self.device, "", FALSE)
    ELSE
    LET model_name ==
            get_model_name_for_pair(source_language, target_language)
        auto == IF cuda THEN "cuda" ELSE "cpu"
    IN  IF device # "None" /\ device \notin {"cpu", "cuda"}
        THEN LoadResult(self, "", "ValueError", FALSE)
        ELSE
        LET dev == IF device = "None" THEN auto
                   ELSE IF device = "cuda" /\ ~cuda THEN "cpu" ELSE device
        IN  CASE outcome = "tokenizer_raises" ->
                    LoadResult(self, "", "RuntimeError", FALSE)
              [] outcome = "model_raises" ->
                    LoadResult([self EXCEPT !.tokenizer = model_name],
                               "", "RuntimeError", FALSE)
              [] outcome = "to_raises" ->
                    LoadResult([self EXCEPT !.tokenizer = model_name,
                                            !.model = model_name],
                               "", "RuntimeError", FALSE)
              [] OTHER ->
                    LoadResult([model |-> model_name,
                                tokenizer |-> model_name,
                                device |-> dev,
                                current_source_language |-> source_language,
                                current_target_language |-> target_language],
                               dev, "", TRUE)

\* The arguments the calls are made with.
SourceLanguages == {"es", "en"}
TargetLanguages == {"en", "fr", "ja"}
Devices == {"None", "cpu", "cuda", "gpu"}

\* A provider fresh from its constructor, on a machine with or without CUDA.
InitProvider ==
    /\ pc = "provider"
    /\ parked = NoFrame
    /\ heap = << >>
    /\ json_data = None
    /\ data0 = None
    /\ InitLocals
    /\ InitNoText
    /\ args = NoArgs
    /\ lang_i = 0
    /\ successful_translations = << >>
    /\ failed_translations = << >>
    /\ exit_status = "running"
    /\ files = {}
    /\ events = << >>
    /\ provider = NewProvider
    /\ cuda_available \in BOOLEAN
    /\ last_call = NoCall

\* One call of provider.load_model.
LoadModel ==
    /\ pc = "provider"
    /\ \E source_language \in SourceLanguages,
          target_language \in TargetLanguages,
          device \in Devices, outcome \in LoadOutcomes :
          LET r == load_model(provider, source_language, target_language,
                              device, cuda_available, outcome)
          IN  /\ provider' = r.self
              /\ last_call' =
                    [source_language |-> source_language,
                     target_language |-> target_language,
                     device |-> device, returned |-> r.returned,
                     raised |-> r.raised, loaded |-> r.loaded]
    /\ UNCHANGED <<pc, heap, json_data, data0, parked, pipeline_locals,
                   error, ph_vars, main_vars, cuda_available>>

NextProvider == LoadModel

SpecProvider == InitProvider /\ [][NextProvider]_vars

\* C30: load_model keeps the loaded model only when the pair and the device
\* asked for are those of the loaded model; a call that returns for cpu or
\* cuda, the hardware being there, returns that device and leaves
\* provider.device equal to it; a device other than cpu, cuda and None is
\* rejected with ValueError.
C30_DeviceHonouredAndValidated ==
    /\ (last_call.returned # "" /\ ~last_call.loaded
        /\ last_call.device \in {"cpu", "cuda"})
          => /\ provider.device = last_call.device
             /\ provider.current_source_language = last_call.source_language
             /\ provider.current_target_language = last_call.target_language
    /\ (last_call.returned # "" /\ last_call.device \in {"cpu", "cuda"}
        /\ (last_call.device = "cuda" => cuda_available))
          => /\ last_call.returned = last_call.device
             /\ provider.device = last_call.device
    /\ (last_call.source_language # ""
        /\ last_call.device \notin {"cpu", "cuda", "None"})
          => last_call.raised = "ValueError"

\* --------------------------------------------------------------------- main

\* Python's call binding: a keyword argument binds only to a parameter of
\* that name (no parameter here is **kwargs); any other raises TypeError.
BindsKeywords(params, kwargs) == kwargs \subseteq params

\* def translate_func(texts) and the keyword main hands to
\* translate_json_values, which forwards it to translate_func.
translate_func_params == {"texts"}
translate_kwargs == {"progress_callback"}

\* What a call ends with: the heap, the value returned, the exception raised.
CallResult(h, v, raised) == [h |-> h, v |-> v, raised |-> raised]

\* The masked texts of the paths collected (translation_pipeline.py:48-54).
ProtectedTexts(paths) ==
    [i \in 1..Len(paths) |-> extract_placeholders(paths[i][2])[1]]

\* The maps of the paths collected.
PlaceholderMappings(paths) ==
    [i \in 1..Len(paths) |-> extract_placeholders(paths[i][2])[2]]

\* The write-back loop from its i-th round on (translation_pipeline.py:76-83).
RECURSIVE WriteBackFrom(_, _, _, _, _)
WriteBackFrom(h, res, paths, restored, i) ==
    IF i > Min(Len(paths), Len(restored)) THEN CallResult(h, res, "")
    ELSE IF paths[i][1] # << >>
    THEN LET r == set_by_path(h, res, paths[i][1], Str(restored[i]))
         IN  IF r.err # "" THEN CallResult(r.h, None, r.err)
             ELSE WriteBackFrom(r.h, res, paths, restored, i + 1)
    ELSE WriteBackFrom(h, Str(restored[i]), paths, restored, i + 1)

\* translate_json_values(value, translate_func, **kwargs) as one call, the
\* rewrite function having parameters params and giving out when it is
\* called: a document without strings is copied, else the texts are masked,
\* translate_func(protected_texts, **kwargs) is called, the count is tested
\* and the restored texts are written into a copy.
translate_json_values(h, value, params, kwargs, out) ==
    LET paths == collect_string_paths(h, value, << >>)
    IN  IF paths = << >>
        THEN LET c == deepcopy(h, value) IN CallResult(c.h, c.v, "")
        ELSE IF ~BindsKeywords(params, kwargs)
        THEN CallResult(h, None, "TypeError")
        ELSE IF Len(out) # Len(paths)
        THEN CallResult(h, None, "ValueError")
        ELSE LET restored == RestoredTexts(out, PlaceholderMappings(paths))
                 c == deepcopy(h, value)
             IN  WriteBackFrom(c.h, c.v, paths, restored, 1)

\* The values of --langs (nargs="+", and the default is not empty): one or
\* two different languages.
LangLists ==
    LET L == {"en", "fr", "ja"}
    IN  {<<a>> : a \in L}
        \cup {<<ab[1], ab[2]>> : ab \in {x \in L \X L : x[1] # x[2]}}

\* The command lines.
ArgsSet ==
    [source_lang : {"es", "xx"}, langs : LangLists,
     device : {"None", "cuda"},
     update_source : BOOLEAN, output_source : BOOLEAN]

\* main after parse_arguments: data0 is the document in the input file.
InitMain ==
    /\ pc = "m_start"
    /\ parked = NoFrame
    /\ heap = << >>
    /\ json_data = None
    /\ data0 \in ConcurrentDocs
    /\ InitLocals
    /\ InitNoText
    /\ args \in ArgsSet
    /\ lang_i = 0
    /\ successful_translations = << >>
    /\ failed_translations = << >>
    /\ exit_status = "running"
    /\ files = {}
    /\ events = << >>
    /\ provider = NewProvider
    /\ cuda_available \in BOOLEAN
    /\ last_call = NoCall

\* log_error(...) followed by sys.exit(1).
ExitWithError(message) ==
    /\ events' = Append(events, <<"log_error", message>>)
    /\ exit_status' = "1"
    /\ pc' = "m_exit"

\* main.py:127-144: the source language and the target languages are tested.
Validate ==
    /\ pc = "m_start"
    /\ IF ~validate_source_language(args.source_lang)
       THEN ExitWithError("Unsupported source language")
       ELSE IF \E i \in 1..Len(args.langs) :
                  ~validate_language_pair(args.source_lang, args.langs[i])
       THEN ExitWithError("Unsupported target language(s)")
       ELSE /\ pc' = "m_load"
            /\ UNCHANGED <<events, exit_status>>
    /\ UNCHANGED <<heap, json_data, data0, parked, pipeline_locals, error,
                   ph_vars, args, lang_i, successful_translations,
                   failed_translations, files, provider_vars>>

\* main.py:153-161: the input file is loaded, or main exits with 1.
LoadSource ==
    /\ pc = "m_load"
    /\ \E ok \in BOOLEAN :
          IF ok
          THEN LET r == Alloc(heap, data0)
               IN  /\ heap' = r.h
                   /\ json_data' = r.v
                   /\ pc' = "m_mkdir"
                   /\ UNCHANGED <<events, exit_status>>
          ELSE /\ ExitWithError("Failed to load source file")
               /\ UNCHANGED <<heap, json_data>>
    /\ UNCHANGED <<data0, parked, pipeline_locals, error, ph_vars, args,
                   lang_i, successful_translations, failed_translations,
                   files, provider_vars>>

\* main.py:163-171: ensure_output_directory is called; of the two handlers
\* for Exception the first is the one that runs, and it logs the error and
\* falls through to the code after the try statement.
EnsureDir ==
    /\ pc = "m_mkdir"
    /\ \E ok \in BOOLEAN :
          events' =
             IF ok
             THEN Append(events, <<"ensure_output_directory", "">>)
             ELSE events \o << <<"ensure_output_directory", "OSError">>,
                               <<"log_error",
                                 "Failed to create output directory">> >>
    /\ pc' = "m_update"
    /\ UNCHANGED <<heap, json_data, data0, parked, pipeline_locals, error,
                   ph_vars, args, lang_i, successful_translations,
                   failed_translations, exit_status, files, provider_vars>>

\* serialize_json(data, path) inside a try whose handler logs the error.
SerializeLogged(path, message) ==
    \E ok \in BOOLEAN :
        IF ok
        THEN /\ events' = Append(events, <<"serialize_json", path, "">>)
             /\ files' = files \cup {path}
        ELSE /\ events' =
                   events \o << <<"serialize_json", path, "OSError">>,
                                <<"log_error", message>> >>
             /\ UNCHANGED files

\* main.py:173-179: --update-source writes the document over the input file.
UpdateSource ==
    /\ pc = "m_update"
    /\ IF args.update_source
       THEN SerializeLogged("input", "Failed to update source file")
       ELSE UNCHANGED <<events, files>>
    /\ pc' = "m_output"
    /\ UNCHANGED <<heap, json_data, data0, parked, pipeline_locals, error,
                   ph_vars, args, lang_i, successful_translations,
                   failed_translations, exit_status, provider_vars>>

\* main.py:181-189: --output-source writes the document into the output
\* directory under the input file's name.
OutputSource ==
    /\ pc = "m_output"
    /\ IF args.output_source
       THEN SerializeLogged("out/input",
                            "Failed to save source file to output")
       ELSE UNCHANGED <<events, files>>
    /\ pc' = "m_cleanup"
    /\ UNCHANGED <<heap, json_data, data0, parked, pipeline_locals, error,
                   ph_vars, args, lang_i, successful_translations,
                   failed_translations, exit_status, provider_vars>>

\* main.py:192-199: with no language and a cleaning flag main exits with 0;
\* else the two lists are made and the loop begins.
CleanupOnly ==
    /\ pc = "m_cleanup"
    /\ IF args.langs = << >> /\ (args.update_source \/ args.output_source)
       THEN /\ exit_status' = "0"
            /\ pc' = "m_exit"
            /\ UNCHANGED lang_i
       ELSE /\ lang_i' = 1
            /\ pc' = "m_loop"
            /\ UNCHANGED exit_status
    /\ UNCHANGED <<heap, json_data, data0, parked, pipeline_locals, error,
                   ph_vars, args, successful_translations,
                   failed_translations, files, events, provider_vars>>

\* An except clause of the loop: the language is logged and appended to
\* failed_translations, and the loop goes on with the next one.
FailLanguage(lang, raised) ==
    /\ failed_translations' = Append(failed_translations, <<lang, raised>>)
    /\ lang_i' = lang_i + 1
    /\ pc' = "m_loop"

\* main.py:205-221: the strings are counted, a new provider is made and the
\* model of the language is loaded.
LoopLoad ==
    /\ pc = "m_loop"
    /\ lang_i <= Len(args.langs)
    /\ \E outcome \in LoadOutcomes :
          LET lang == args.langs[lang_i]
              r == load_model(NewProvider, args.source_lang, lang,
                              args.device, cuda_available, outcome)
          IN  /\ provider' = r.self
              /\ last_call' =
                    [source_language |-> args.source_lang,
                     target_language |-> lang, device |-> args.device,
                     returned |-> r.returned, raised |-> r.raised,
                     loaded |-> r.loaded]
              /\ IF r.raised # ""
                 THEN /\ events' =
                            events \o << <<"load_model", lang, r.raised>>,
                                         <<"log_error", lang>> >>
                      /\ FailLanguage(lang, r.raised)
                 ELSE /\ events' =
                            Append(events, <<"load_model", lang, "">>)
                      /\ pc' = "m_translate"
                      /\ UNCHANGED <<failed_translations, lang_i>>
    /\ UNCHANGED <<heap, json_data, data0, parked, pipeline_locals, error,
                   ph_vars, args, successful_translations, exit_status,
                   files, cuda_available>>

\* main.py:226-238: translate_json_values(source_data, translate_func,
\* progress_callback=...), translate_func being a def with the one
\* parameter texts that hands the texts to the provider.
Translate ==
    /\ pc = "m_translate"
    /\ \E out \in RewriteOutputs(ProtectedTexts(
                         collect_string_paths(heap, json_data, << >>))) :
          LET lang == args.langs[lang_i]
              r == translate_json_values(heap, json_data,
                                         translate_func_params,
                                         translate_kwargs, out)
          IN  IF r.raised # ""
              THEN /\ events' =
                         events \o
                         << <<"translate_json_values", lang, r.raised>>,
                            <<"log_error", lang>> >>
                   /\ FailLanguage(lang, r.raised)
                   /\ UNCHANGED <<heap, result>>
              ELSE /\ events' =
                         Append(events, <<"translate_json_values", lang, "">>)
                   /\ heap' = r.h
                   /\ result' = r.v
                   /\ pc' = "m_save"
                   /\ UNCHANGED <<failed_translations, lang_i>>
    /\ UNCHANGED <<json_data, data0, parked, string_paths, protected_texts,
                   placeholder_mappings, translated_texts, restored_texts,
                   wb, calls, written, error, ph_vars, args,
                   successful_translations, exit_status, files,
                   provider_vars>>

\* main.py:243-249: the translated document is written to <lang>.json and
\* the language is appended to successful_translations.
Save ==
    /\ pc = "m_save"
    /\ LET lang == args.langs[lang_i]
       IN  \E ok \in BOOLEAN :
              IF ok
              THEN /\ events' = Append(events, <<"serialize_json", lang, "">>)
                   /\ files' = files \cup {lang}
                   /\ successful_translations' =
                         Append(successful_translations, lang)
                   /\ lang_i' = lang_i + 1
                   /\ pc' = "m_loop"
                   /\ UNCHANGED failed_translations
              ELSE /\ events' =
                         events \o << <<"serialize_json", lang, "OSError">>,
                                      <<"log_error", lang>> >>
                   /\ FailLanguage(lang, "OSError")
                   /\ UNCHANGED <<files, successful_translations>>
    /\ UNCHANGED <<heap, json_data, data0, parked, pipeline_locals, error,
                   ph_vars, args, exit_status, provider_vars>>

\* main.py:269-281: after the loop the summary is printed and main exits
\* with 1 if a language failed.
Summary ==
    /\ pc = "m_loop"
    /\ lang_i > Len(args.langs)
    /\ exit_status' = IF failed_translations # << >> THEN "1" ELSE "0"
    /\ pc' = "m_exit"
    /\ UNCHANGED <<heap, json_data, data0, parked, pipeline_locals, error,
                   ph_vars, args, lang_i, successful_translations,
                   failed_translations, files, events, provider_vars>>

NextMain ==
    \/ Validate
    \/ LoadSource
    \/ EnsureDir
    \/ UpdateSource
    \/ OutputSource
    \/ CleanupOnly
    \/ LoopLoad
    \/ Translate
    \/ Save
    \/ Summary

SpecMain == InitMain /\ [][NextMain]_vars

\* Whether main did the event.
Did(e) == \E i \in 1..Len(events) : events[i] = e

\* The languages of the loop's finished iterations.
ProcessedLangs ==
    {args.langs[i] : i \in 1..(IF lang_i = 0 THEN 0
                               ELSE IF lang_i - 1 < Len(args.langs)
                                    THEN lang_i - 1 ELSE Len(args.langs))}

\* The languages of failed_translations.
FailedLangs == {failed_translations[i][1] : i \in 1..Len(failed_translations)}

\* C28: in main's loop, the source document having a string leaf, a language
\* whose model loaded and whose output file could be written is appended to
\* successful_translations and not to failed_translations, and <lang>.json
\* is written: the rewrite function takes the keyword arguments
\* translate_json_values forwards to it.
C28_LoadedLanguageSucceeds ==
    \A lang \in ProcessedLangs :
        (/\ HasStringLeaf(data0)
         /\ Did(<<"load_model", lang, "">>)
         /\ ~Did(<<"serialize_json", lang, "OSError">>))
          => /\ \E i \in 1..Len(successful_translations) :
                    successful_translations[i] = lang
             /\ lang \notin FailedLangs
             /\ lang \in files
             /\ ~Did(<<"translate_json_values", lang, "TypeError">>)

\* C29: once ensure_output_directory has raised, main has logged the error,
\* attempts no source update, source copy or translation, and the status it
\* ends with is 1.
C29_DirectoryFailureExits ==
    Did(<<"ensure_output_directory", "OSError">>)
      => /\ Did(<<"log_error", "Failed to create output directory">>)
         /\ pc = "m_exit" => exit_status = "1"
         /\ \A i \in 1..Len(events) :
               events[i][1] \notin {"serialize_json", "load_model",
                                    "translate_json_values"}

====
